---- MODULE Spec2Model ----
(***************************************************************************)
(* Model of the abeilles data-loading scripts.                             *)
(*                                                                         *)
(*   loaddata2.py  get_gdd_from_open_meteo: one HTTP GET to the Open-Meteo *)
(*                 archive, then a pandas reduction (mean, clip, sum).     *)
(*   loaddata3.py  generer_urls_parquet_quotidien and the command line of  *)
(*                 the URL script.                                         *)
(*                                                                         *)
(* Numbers.  A JSON reading and t_base are decimal numbers with one        *)
(* decimal, written in tenths of a degree (5.1 is 51).  The code computes  *)
(* in float64: a float is modelled as [nan, neg, mag], the value being     *)
(* mag * 2^-FracBits with mag a natural number of any size, and every      *)
(* operation rounds its exact result to Precision significant bits, ties   *)
(* to even, as IEEE 754 does.  The two zeros are not told apart, and the   *)
(* values stay far from overflow and from the subnormal range.             *)
(***************************************************************************)
EXTENDS Integers, Sequences, FiniteSets, TLC

VARIABLES
    \* ---- loaddata2.py ----
    archive,      \* upstream records of the year, archive[1] is January 1
    pc,           \* position of the caller of get_gdd_from_open_meteo
    date,         \* target date as a day of the year (0: no call yet)
    t_base,       \* base temperature of the call, in tenths of a degree
    data,         \* response.json()
    temps,        \* the DataFrame, a sequence of rows
    gdd_cumul,    \* the returned sum, a float
    error,        \* exception that ended the call, "" when none
    \* ---- loaddata3.py ----
    pc3,          \* position in the URL script
    argv1,        \* sys.argv[1], "" when the script has no argument
    annee_debut, annee_fin, format_sortie,
    periodes, urls, urls_prepared,
    ret,          \* who called generer_urls_parquet_quotidien
    stdout,       \* what has been printed, in order
    fichier,      \* lines written to urls_parquet.txt, <<>> when not written
    exit_code     \* process exit status, -1 while running

vars2 == <<archive, pc, date, t_base, data, temps, gdd_cumul, error>>
vars3 == <<pc3, argv1, annee_debut, annee_fin, format_sortie,
           periodes, urls, urls_prepared, ret, stdout, fichier, exit_code>>
vars == <<vars2, vars3>>

(***************************************************************************)
(* Bounds and input sets                                                   *)
(***************************************************************************)
\* longest archive made of any of the days of DayRecords
MaxDays == 3

\* longest archive made of a mild spell and a frost spell: the sum of 8
\* values or more is not added in day order
LongDays == 8

\* a (t_max, t_min) day in tenths of a degree
Day(x, n) == [t_max |-> <<x>>, t_min |-> <<n>>]

\* days with both readings: whole degrees, one decimal, below zero
FullDays ==
    {Day(100, 0), Day(200, 100), Day(68, 68), Day(35, -81)}

\* days on which the upstream lacks a reading: both, t_min only
NullDays ==
    {[t_max |-> <<>>, t_min |-> <<>>],
     [t_max |-> <<200>>, t_min |-> <<>>]}

DayRecords == FullDays \cup NullDays

\* the long archives: k mild days (6.8, 6.8) and then frost days (10, 0)
Spell(n, k) == [i \in 1..n |-> IF i <= k THEN Day(68, 68) ELSE Day(100, 0)]

\* base temperatures passed by callers, in tenths (5 is the default)
TBases == {50, 100}

\* years passed to generer_urls_parquet_quotidien: both sides of each
\* threshold of the period table
Years == {1940, 1949, 1950, 1975, 1989, 1990, 1995, 2020, 2021, 2022, 2030}

\* first command-line argument of the URL script, "" for none
Args == {"", "--json", "--python", "--save", "--help", "--autre"}

(***************************************************************************)
(* Natural numbers of any size: limbs in base LimbBase, lowest first, no   *)
(* zero limb at the top; <<>> is zero                                      *)
(***************************************************************************)
LimbBits == 20

LimbBase == 2 ^ LimbBits

\* largest power of two by which one step multiplies or divides
ChunkBits == 10

Limb(a, i) == IF i <= Len(a) THEN a[i] ELSE 0

RECURSIVE NatStrip(_)
NatStrip(a) ==
    IF Len(a) > 0 /\ a[Len(a)] = 0
    THEN NatStrip(SubSeq(a, 1, Len(a) - 1))
    ELSE a

RECURSIVE NatAddFrom(_, _, _, _)
NatAddFrom(a, b, i, carry) ==
    IF i > Len(a) /\ i > Len(b)
    THEN (IF carry = 0 THEN <<>> ELSE <<carry>>)
    ELSE <<(Limb(a, i) + Limb(b, i) + carry) % LimbBase>>
         \o NatAddFrom(a, b, i + 1,
                       (Limb(a, i) + Limb(b, i) + carry) \div LimbBase)

NatAdd(a, b) == NatAddFrom(a, b, 1, 0)

\* a - b for a >= b
RECURSIVE NatSubFrom(_, _, _, _)
NatSubFrom(a, b, i, borrow) ==
    IF i > Len(a) THEN <<>>
    ELSE IF a[i] - Limb(b, i) - borrow < 0
         THEN <<a[i] - Limb(b, i) - borrow + LimbBase>>
              \o NatSubFrom(a, b, i + 1, 1)
         ELSE <<a[i] - Limb(b, i) - borrow>> \o NatSubFrom(a, b, i + 1, 0)

NatSub(a, b) == NatStrip(NatSubFrom(a, b, 1, 0))

RECURSIVE NatCmpFrom(_, _, _)
NatCmpFrom(a, b, i) ==
    IF i = 0 THEN 0
    ELSE IF a[i] > b[i] THEN 1
    ELSE IF a[i] < b[i] THEN -1
    ELSE NatCmpFrom(a, b, i - 1)

\* -1, 0, 1 as a < b, a = b, a > b
NatCmp(a, b) ==
    IF Len(a) > Len(b) THEN 1
    ELSE IF Len(a) < Len(b) THEN -1
    ELSE NatCmpFrom(a, b, Len(a))

\* a * k for 0 <= k <= 2^ChunkBits
RECURSIVE NatMulFrom(_, _, _, _)
NatMulFrom(a, k, i, carry) ==
    IF i > Len(a)
    THEN (IF carry = 0 THEN <<>> ELSE <<carry>>)
    ELSE <<(a[i] * k + carry) % LimbBase>>
         \o NatMulFrom(a, k, i + 1, (a[i] * k + carry) \div LimbBase)

NatMulSmall(a, k) == NatStrip(NatMulFrom(a, k, 1, 0))

\* quotient limbs 1..i and remainder of a by k, for 0 < k <= 2^ChunkBits;
\* r is the remainder that comes down from the limbs above i
RECURSIVE NatDivFrom(_, _, _, _)
NatDivFrom(a, k, i, r) ==
    IF i = 0 THEN <<<<>>, r>>
    ELSE LET below == NatDivFrom(a, k, i - 1, (r * LimbBase + a[i]) % k)
         IN <<Append(below[1], (r * LimbBase + a[i]) \div k), below[2]>>

NatDivSmall(a, k) ==
    LET d == NatDivFrom(a, k, Len(a), 0)
    IN [q |-> NatStrip(d[1]), r |-> d[2]]

FromSmall(x) == IF x = 0 THEN <<>> ELSE <<x>>

RECURSIVE SmallBitLen(_)
SmallBitLen(x) == IF x = 0 THEN 0 ELSE 1 + SmallBitLen(x \div 2)

NatBitLen(a) ==
    IF Len(a) = 0 THEN 0
    ELSE LimbBits * (Len(a) - 1) + SmallBitLen(a[Len(a)])

\* a * 2^s
RECURSIVE NatShl(_, _)
NatShl(a, s) ==
    IF s = 0 THEN a
    ELSE IF s > ChunkBits
    THEN NatShl(NatMulSmall(a, 2 ^ ChunkBits), s - ChunkBits)
    ELSE NatMulSmall(a, 2 ^ s)

\* a \div 2^s, and whether a non-zero bit was shifted out (or sticky was set)
RECURSIVE NatShr(_, _, _)
NatShr(a, s, sticky) ==
    IF s = 0 THEN [q |-> a, sticky |-> sticky]
    ELSE LET c == IF s > ChunkBits THEN ChunkBits ELSE s
             d == NatDivSmall(a, 2 ^ c)
         IN NatShr(d.q, s - c, sticky \/ d.r # 0)

(***************************************************************************)
(* float64                                                                 *)
(***************************************************************************)
\* significant bits of a float64
Precision == 53

\* the model's floats are multiples of 2^-FracBits
FracBits == 57

\* m + (something below one unit, when sticky) rounded to Precision
\* significant bits, ties to even
RoundMag(m, sticky) ==
    IF NatBitLen(m) <= Precision THEN m
    ELSE LET s == NatBitLen(m) - Precision
             low == NatShr(m, s - 1, sticky)
             g == NatDivSmall(low.q, 2)
             up == g.r = 1 /\ (low.sticky \/ Limb(g.q, 1) % 2 = 1)
         IN NatShl(IF up THEN NatAdd(g.q, <<1>>) ELSE g.q, s)

\* float NaN as pandas stores a missing reading
NaN == [nan |-> TRUE, neg |-> FALSE, mag |-> <<>>]

\* the float of sign neg and magnitude mag * 2^-FracBits
Num(neg, mag) == [nan |-> FALSE, neg |-> neg /\ mag # <<>>, mag |-> mag]

FZero == Num(FALSE, <<>>)

\* the exact sum of two numbers
ExactAdd(a, b) ==
    IF a.neg = b.neg THEN Num(a.neg, NatAdd(a.mag, b.mag))
    ELSE IF NatCmp(a.mag, b.mag) >= 0
    THEN Num(a.neg, NatSub(a.mag, b.mag))
    ELSE Num(b.neg, NatSub(b.mag, a.mag))

\* float64 +
FAdd(a, b) ==
    IF a.nan \/ b.nan THEN NaN
    ELSE LET x == ExactAdd(a, b) IN Num(x.neg, RoundMag(x.mag, FALSE))

FNeg(a) == IF a.nan THEN NaN ELSE Num(~a.neg, a.mag)

\* float64 -
FSub(a, b) == FAdd(a, FNeg(b))

\* float64 / 2: the exponent goes down by one, nothing is rounded
FDiv2(a) == IF a.nan THEN NaN ELSE Num(a.neg, NatDivSmall(a.mag, 2).q)

\* -1, 0, 1 as a < b, a = b, a > b, for numbers
FCmp(a, b) ==
    IF a.neg /\ ~b.neg THEN -1
    ELSE IF ~a.neg /\ b.neg THEN 1
    ELSE IF a.neg THEN NatCmp(b.mag, a.mag)
    ELSE NatCmp(a.mag, b.mag)

\* the float64 nearest to t / 10, as float() and the JSON parser give it
FromTenths(t) ==
    LET abs == IF t < 0 THEN 0 - t ELSE t
        d == NatDivSmall(NatShl(FromSmall(abs), FracBits), 10)
    IN Num(t < 0, RoundMag(d.q, d.r # 0))

(***************************************************************************)
(* JSON and pandas values                                                  *)
(***************************************************************************)
\* a JSON reading: null, or a number in tenths of a degree
JNull == <<>>

JNum(x) == <<x>>

\* list element -> float64 column element: None becomes NaN
ToFloat(j) == IF j = JNull THEN NaN ELSE FromTenths(j[1])

\* Series - t_base
FSubBase(a, tb) == FSub(a, FromTenths(tb))

\* mutant of ClipLower0: the floor is lost
ClipLower0_NoFloor(a) == a

\* Series.clip(lower=0): NaN stays NaN
ClipLower0(a) == IF a.nan THEN a ELSE IF a.neg THEN FZero ELSE a

\* res += a[i] for i = from, from + step, ... while i <= to
RECURSIVE AddEach(_, _, _, _, _)
AddEach(a, res, from, step, to) ==
    IF from > to THEN res
    ELSE AddEach(a, FAdd(res, a[from]), from + step, step, to)

\* numpy's block size for the pairwise sum
PwBlockSize == 128

\* numpy's sum of a float64 array: in order below 8 elements, 8 running
\* sums up to PwBlockSize elements, two halves above
RECURSIVE PairwiseSum(_)
PairwiseSum(a) ==
    LET n == Len(a)
    IN IF n < 8 THEN AddEach(a, FZero, 1, 1, n)
       ELSE IF n <= PwBlockSize
       THEN LET whole == n - (n % 8)
                r == [j \in 1..8 |-> AddEach(a, a[j], j + 8, 8, whole)]
            IN AddEach(a,
                       FAdd(FAdd(FAdd(r[1], r[2]), FAdd(r[3], r[4])),
                            FAdd(FAdd(r[5], r[6]), FAdd(r[7], r[8]))),
                       whole + 1, 1, n)
       ELSE LET n2 == (n \div 2) - ((n \div 2) % 8)
            IN FAdd(PairwiseSum(SubSeq(a, 1, n2)),
                    PairwiseSum(SubSeq(a, n2 + 1, n)))

\* Series.sum(): skipna=True puts 0 in place of NaN, then numpy adds; the
\* empty sum is 0
SeriesSum(s) ==
    FAdd(FZero,
         PairwiseSum([i \in 1..Len(s) |-> IF s[i].nan THEN FZero ELSE s[i]]))

(***************************************************************************)
(* The upstream archive                                                    *)
(***************************************************************************)
RECURSIVE SeqsOfLen(_, _)
SeqsOfLen(S, n) ==
    IF n = 0 THEN {<<>>}
    ELSE {Append(s, x) : s \in SeqsOfLen(S, n - 1), x \in S}

\* the archive holds January 1 and the days after it up to some day
Archives ==
    UNION {SeqsOfLen(DayRecords, n) : n \in 1..MaxDays}
    \cup UNION {{Spell(n, k) : k \in 0..n} : n \in (MaxDays + 1)..LongDays}

\* the JSON body of a successful answer for [January 1, d]: the days the
\* archive has in that range
DailyResponse(arch, d) ==
    LET n == IF d <= Len(arch) THEN d ELSE Len(arch)
    IN [daily |-> [time |-> [i \in 1..n |-> i],
                   temperature_2m_max |-> [i \in 1..n |-> arch[i].t_max],
                   temperature_2m_min |-> [i \in 1..n |-> arch[i].t_min]]]

\* the JSON body of a refused request: no "daily" key
ErrorResponse == [error |-> TRUE]

(***************************************************************************)
(* get_gdd_from_open_meteo, lines 27-37                                    *)
(***************************************************************************)
\* pd.DataFrame({...}) at lines 27-31
DataFrame(daily) ==
    [i \in 1..Len(daily.time) |->
        [date |-> daily.time[i],
         t_max |-> ToFloat(daily.temperature_2m_max[i]),
         t_min |-> ToFloat(daily.temperature_2m_min[i])]]

\* mutant of TMean: the division by 2 is lost
TMean_NoHalf(row) == FAdd(row.t_max, row.t_min)

\* line 33
TMean(row) == FDiv2(FAdd(row.t_max, row.t_min))

\* mutant of GddDaily: the floor is applied before the base is subtracted
GddDaily_ClipFirst(row, tb) == FSubBase(ClipLower0(TMean(row)), tb)

\* line 34
GddDaily(row, tb) == ClipLower0(FSubBase(TMean(row), tb))

\* the two added columns of the frame
WithGdd(frame, tb) ==
    [i \in 1..Len(frame) |->
        [date |-> frame[i].date, t_max |-> frame[i].t_max,
         t_min |-> frame[i].t_min, t_mean |-> TMean(frame[i]),
         gdd_daily |-> GddDaily(frame[i], tb)]]

\* mutant of GddCumul: the target date itself is left out of the sum
GddCumul_SkipLast(frame) ==
    SeriesSum([i \in 1..(Len(frame) - 1) |-> frame[i].gdd_daily])

\* line 35
GddCumul(frame) == SeriesSum([i \in 1..Len(frame) |-> frame[i].gdd_daily])

\* lines 27-37 on a response body that has the "daily" key
GddOfResponse(body, tb) == GddCumul(WithGdd(DataFrame(body.daily), tb))

(***************************************************************************)
(* Script 3 at rest while script 2 runs, and conversely                    *)
(***************************************************************************)
Idle3 ==
    /\ pc3 = "off" /\ argv1 = "" /\ annee_debut = 0 /\ annee_fin = 0
    /\ format_sortie = "" /\ periodes = <<>> /\ urls = <<>>
    /\ urls_prepared = <<>> /\ ret = "" /\ stdout = <<>> /\ fichier = <<>>
    /\ exit_code = -1

Idle2 ==
    /\ archive = <<>> /\ pc = "off" /\ date = 0 /\ t_base = 50
    /\ data = <<>> /\ temps = <<>> /\ gdd_cumul = FZero /\ error = ""

(***************************************************************************)
(* Script 2: calls of get_gdd_from_open_meteo                              *)
(***************************************************************************)
Init2 ==
    /\ archive \in Archives
    /\ pc = "idle" /\ date = 0 /\ t_base = 50
    /\ data = <<>> /\ temps = <<>> /\ gdd_cumul = FZero /\ error = ""
    /\ Idle3

\* lines 9-24: the request for [January 1 of the year, d] and its answer
Request(d, tb, ok) ==
    /\ pc = "idle"
    /\ d <= Len(archive) + 1
    /\ date' = d /\ t_base' = tb
    /\ data' = IF ok THEN DailyResponse(archive, d) ELSE ErrorResponse
    /\ temps' = <<>> /\ gdd_cumul' = FZero /\ error' = ""
    /\ pc' = "responded"
    /\ UNCHANGED <<archive, vars3>>

\* lines 27-31: data['daily'] raises KeyError on a refused request
BuildFrame ==
    /\ pc = "responded"
    /\ IF "daily" \in DOMAIN data
       THEN /\ temps' = DataFrame(data.daily)
            /\ pc' = "framed"
            /\ error' = error
       ELSE /\ temps' = temps
            /\ pc' = "raised"
            /\ error' = "KeyError"
    /\ UNCHANGED <<archive, date, t_base, data, gdd_cumul, vars3>>

\* lines 33-37
ComputeGdd ==
    /\ pc = "framed"
    /\ temps' = WithGdd(temps, t_base)
    /\ gdd_cumul' = GddCumul(WithGdd(temps, t_base))
    /\ pc' = "returned"
    /\ UNCHANGED <<archive, date, t_base, data, error, vars3>>

\* line 42: the call is over, the caller holds the result (or the
\* exception), the other locals are gone; the caller may call again
NextCall ==
    /\ pc \in {"returned", "raised"}
    /\ pc' = "idle"
    /\ date' = 0 /\ t_base' = 50
    /\ data' = <<>> /\ temps' = <<>>
    /\ UNCHANGED <<archive, gdd_cumul, error, vars3>>

Next2 ==
    \/ \E d \in 1..(LongDays + 1), tb \in TBases, ok \in BOOLEAN : Request(d, tb, ok)
    \/ BuildFrame
    \/ ComputeGdd
    \/ NextCall

SpecGDD == Init2 /\ [][Next2]_vars

(***************************************************************************)
(* loaddata3.py: generer_urls_parquet_quotidien                            *)
(***************************************************************************)
base_url == "https://object.files.data.gouv.fr/meteofrance-mistermeteo/"

\* mutant of Periodes: the recent files are added from 2020 on
Periodes_Latest2020(debut, fin) ==
    (IF debut <= 1949 THEN <<"previous-1950">> ELSE <<>>)
    \o (IF debut <= 1989 /\ fin >= 1950
        THEN <<"1950-1959", "1960-1969", "1970-1979", "1980-1989">>
        ELSE <<>>)
    \o (IF debut <= 2021 /\ fin >= 1990
        THEN <<"1990-1999", "2000-2009", "2010-2019", "2020-2021">>
        ELSE <<>>)
    \o (IF fin >= 2020
        THEN <<"latest-2022-2023", "latest-2023-2024", "latest-2024-2025">>
        ELSE <<>>)

\* mutant of Periodes: the 1950-1989 files do not test the end year
Periodes_NoEndTest(debut, fin) ==
    (IF debut <= 1949 THEN <<"previous-1950">> ELSE <<>>)
    \o (IF debut <= 1989
        THEN <<"1950-1959", "1960-1969", "1970-1979", "1980-1989">>
        ELSE <<>>)
    \o (IF debut <= 2021 /\ fin >= 1990
        THEN <<"1990-1999", "2000-2009", "2010-2019", "2020-2021">>
        ELSE <<>>)
    \o (IF fin >= 2022
        THEN <<"latest-2022-2023", "latest-2023-2024", "latest-2024-2025">>
        ELSE <<>>)

\* lines 36-58
Periodes(debut, fin) ==
    (IF debut <= 1949 THEN <<"previous-1950">> ELSE <<>>)
    \o (IF debut <= 1989 /\ fin >= 1950
        THEN <<"1950-1959", "1960-1969", "1970-1979", "1980-1989">>
        ELSE <<>>)
    \o (IF debut <= 2021 /\ fin >= 1990
        THEN <<"1990-1999", "2000-2009", "2010-2019", "2020-2021">>
        ELSE <<>>)
    \o (IF fin >= 2022
        THEN <<"latest-2022-2023", "latest-2023-2024", "latest-2024-2025">>
        ELSE <<>>)

\* line 66
UrlBrut(periode) == base_url \o "quotidien." \o periode \o ".parquet"

\* mutant of UrlPrepared: the .prepared suffix is lost
UrlPrepared_NoSuffix(periode) ==
    base_url \o "quotidien." \o periode \o ".parquet"

\* line 70
UrlPrepared(periode) ==
    base_url \o "quotidien." \o periode \o ".prepared.parquet"

\* printed or written line: what it is, and the text that varies
Ligne(k, t) == [kind |-> k, text |-> t]

\* f"{annee_debut}-{annee_fin}"
PeriodeTexte(debut, fin) == ToString(debut) \o "-" \o ToString(fin)

\* lines 92-101
RapportEntete(debut, fin) ==
    <<Ligne("titre", PeriodeTexte(debut, fin)), Ligne("important", "")>>

\* lines 103-115: enumerate(..., 1)
RapportTexte(prep, bruts) ==
    <<Ligne("section_prepares", "")>>
    \o [i \in 1..Len(prep) |-> Ligne("ligne", ToString(i) \o ". " \o prep[i])]
    \o <<Ligne("section_bruts", "")>>
    \o [i \in 1..Len(bruts) |-> Ligne("ligne", ToString(i) \o ". " \o bruts[i])]

\* lines 117-125: the dictionary that json.dumps prints, key by key
RapportJson(debut, fin, prep, bruts) ==
    <<Ligne("json_periode", PeriodeTexte(debut, fin))>>
    \o [i \in 1..Len(prep) |-> Ligne("json_fichiers_prepares", prep[i])]
    \o [i \in 1..Len(bruts) |-> Ligne("json_fichiers_bruts", bruts[i])]
    \o <<Ligne("json_note", "")>>

\* lines 127-138
RapportPython(prep, bruts) ==
    <<Ligne("python", "# Liste des URLs (fichiers préparés)"),
      Ligne("python", "urls_prepared = [")>>
    \o [i \in 1..Len(prep) |-> Ligne("python", "    \"" \o prep[i] \o "\",")]
    \o <<Ligne("python", "]"),
         Ligne("python", ""),
         Ligne("python", "# Liste des URLs (fichiers bruts)"),
         Ligne("python", "urls_brut = [")>>
    \o [i \in 1..Len(bruts) |-> Ligne("python", "    \"" \o bruts[i] \o "\",")]
    \o <<Ligne("python", "]")>>

\* lines 140-208
RapportFin == <<Ligne("comment_utiliser", ""), Ligne("informations", "")>>

\* lines 92-208: everything afficher_urls prints after the call at line 90
Rapport(format, debut, fin, prep, bruts) ==
    RapportEntete(debut, fin)
    \o (IF format = "texte" THEN RapportTexte(prep, bruts)
        ELSE IF format = "json" THEN RapportJson(debut, fin, prep, bruts)
        ELSE IF format = "python" THEN RapportPython(prep, bruts)
        ELSE <<>>)
    \o RapportFin

\* lines 217-228: the content of the text file
ContenuFichier(debut, fin, prep, bruts) ==
    <<Ligne("commentaire", PeriodeTexte(debut, fin)),
      Ligne("commentaire", "prepares")>>
    \o [i \in 1..Len(prep) |-> Ligne("url", prep[i])]
    \o <<Ligne("commentaire", "bruts")>>
    \o [i \in 1..Len(bruts) |-> Ligne("url", bruts[i])]

(***************************************************************************)
(* Script 3: the function called on its own, or the script run as main     *)
(***************************************************************************)
Init3 ==
    /\ Idle2
    /\ periodes = <<>> /\ urls = <<>> /\ urls_prepared = <<>>
    /\ stdout = <<>> /\ fichier = <<>> /\ exit_code = -1
    /\ format_sortie = ""
    /\ \/ /\ pc3 = "main" /\ ret = ""
          /\ argv1 \in Args
          /\ annee_debut = 0 /\ annee_fin = 0
       \/ /\ pc3 = "generer" /\ ret = "appelant"
          /\ argv1 = ""
          /\ annee_debut \in Years /\ annee_fin \in Years

\* lines 237-258: defaults, then the dispatch on sys.argv[1]
Main ==
    /\ pc3 = "main"
    /\ annee_debut' = 1950 /\ annee_fin' = 2020
    /\ IF argv1 = "--json"
       THEN /\ format_sortie' = "json" /\ pc3' = "afficher"
            /\ UNCHANGED <<stdout, exit_code>>
       ELSE IF argv1 = "--python"
       THEN /\ format_sortie' = "python" /\ pc3' = "afficher"
            /\ UNCHANGED <<stdout, exit_code>>
       ELSE IF argv1 = "--save"
       THEN /\ format_sortie' = "texte" /\ pc3' = "sauvegarder"
            /\ UNCHANGED <<stdout, exit_code>>
       ELSE IF argv1 = "--help"
       THEN /\ format_sortie' = "texte" /\ pc3' = "exited"
            /\ stdout' = stdout \o <<Ligne("usage", "")>>
            /\ exit_code' = 0
       ELSE /\ format_sortie' = "texte" /\ pc3' = "afficher"
            /\ UNCHANGED <<stdout, exit_code>>
    /\ UNCHANGED <<argv1, periodes, urls, urls_prepared, ret, fichier>>
    /\ UNCHANGED vars2

\* line 90: afficher_urls calls the generator
AfficherAppel ==
    /\ pc3 = "afficher"
    /\ ret' = "afficher" /\ pc3' = "generer"
    /\ UNCHANGED <<argv1, annee_debut, annee_fin, format_sortie, periodes,
                   urls, urls_prepared, stdout, fichier, exit_code>>
    /\ UNCHANGED vars2

\* line 215: sauvegarder_urls_fichier calls the generator
SauvegarderAppel ==
    /\ pc3 = "sauvegarder"
    /\ ret' = "sauvegarder" /\ pc3' = "generer"
    /\ UNCHANGED <<argv1, annee_debut, annee_fin, format_sortie, periodes,
                   urls, urls_prepared, stdout, fichier, exit_code>>
    /\ UNCHANGED vars2

\* lines 36-62: the period list, and the two empty URL lists
GenererPeriodes ==
    /\ pc3 = "generer"
    /\ periodes' = Periodes(annee_debut, annee_fin)
    /\ urls' = <<>> /\ urls_prepared' = <<>>
    /\ pc3' = "boucle"
    /\ UNCHANGED <<argv1, annee_debut, annee_fin, format_sortie, ret,
                   stdout, fichier, exit_code>>
    /\ UNCHANGED vars2

\* lines 64-71: one turn of the loop
GenererUrl ==
    /\ pc3 = "boucle"
    /\ Len(urls) < Len(periodes)
    /\ urls' = Append(urls, UrlBrut(periodes[Len(urls) + 1]))
    /\ urls_prepared' =
          Append(urls_prepared, UrlPrepared(periodes[Len(urls) + 1]))
    /\ UNCHANGED <<pc3, argv1, annee_debut, annee_fin, format_sortie,
                   periodes, ret, stdout, fichier, exit_code>>
    /\ UNCHANGED vars2

\* line 73
GenererRetour ==
    /\ pc3 = "boucle"
    /\ Len(urls) = Len(periodes)
    /\ pc3' = IF ret = "afficher" THEN "rapport"
              ELSE IF ret = "sauvegarder" THEN "ecrire"
              ELSE "retourne"
    /\ UNCHANGED <<argv1, annee_debut, annee_fin, format_sortie, periodes,
                   urls, urls_prepared, ret, stdout, fichier, exit_code>>
    /\ UNCHANGED vars2

\* lines 92-208, then the end of the script: status 0
AfficherRapport ==
    /\ pc3 = "rapport"
    /\ stdout' = stdout \o Rapport(format_sortie, annee_debut, annee_fin,
                                   urls_prepared, urls)
    /\ exit_code' = 0
    /\ pc3' = "exited"
    /\ UNCHANGED <<argv1, annee_debut, annee_fin, format_sortie, periodes,
                   urls, urls_prepared, ret, fichier>>
    /\ UNCHANGED vars2

\* lines 217-230
EcrireFichier ==
    /\ pc3 = "ecrire"
    /\ fichier' = ContenuFichier(annee_debut, annee_fin, urls_prepared, urls)
    /\ stdout' = stdout \o <<Ligne("sauvegarde", "urls_parquet.txt")>>
    /\ pc3' = "apres_save"
    /\ UNCHANGED <<argv1, annee_debut, annee_fin, format_sortie, periodes,
                   urls, urls_prepared, ret, exit_code>>
    /\ UNCHANGED vars2

\* mutant of SaveExit: no exit after the save, the script goes on to the
\* report
SaveExit_FallThrough ==
    /\ pc3 = "apres_save"
    /\ pc3' = "afficher"
    /\ UNCHANGED <<argv1, annee_debut, annee_fin, format_sortie, periodes,
                   urls, urls_prepared, ret, stdout, fichier, exit_code>>
    /\ UNCHANGED vars2

\* line 249: sys.exit(0)
SaveExit ==
    /\ pc3 = "apres_save"
    /\ exit_code' = 0
    /\ pc3' = "exited"
    /\ UNCHANGED <<argv1, annee_debut, annee_fin, format_sortie, periodes,
                   urls, urls_prepared, ret, stdout, fichier>>
    /\ UNCHANGED vars2

Next3 ==
    \/ Main
    \/ AfficherAppel
    \/ SauvegarderAppel
    \/ GenererPeriodes
    \/ GenererUrl
    \/ GenererRetour
    \/ AfficherRapport
    \/ EcrireFichier
    \/ SaveExit

SpecURL == Init3 /\ [][Next3]_vars

(***************************************************************************)
(* Properties of get_gdd_from_open_meteo                                   *)
(***************************************************************************)
\* the response of the current call has a reading for every day of
\* [January 1, date]
Complete ==
    /\ "daily" \in DOMAIN data
    /\ Len(data.daily.time) = date
    /\ \A i \in 1..date :
          /\ data.daily.temperature_2m_max[i] # JNull
          /\ data.daily.temperature_2m_min[i] # JNull

\* every reading of the first n days and the base are multiples of 0.5
HalfDegrees(n, tb) ==
    /\ tb % 5 = 0
    /\ \A i \in 1..n :
          archive[i].t_max[1] % 5 = 0 /\ archive[i].t_min[1] % 5 = 0

\* max(0, (t_max + t_min)/2 - t_base) of archive day i as a real number,
\* counted in twentieths of a degree
RealDaily(i, tb) ==
    LET h == archive[i].t_max[1] + archive[i].t_min[1] - 2 * tb
    IN IF h > 0 THEN h ELSE 0

RECURSIVE RealSum(_, _)
RealSum(n, tb) == IF n = 0 THEN 0 ELSE RealSum(n - 1, tb) + RealDaily(n, tb)

\* max(0, (t_max + t_min)/2 - t_base) of archive day i, each operation done
\* in float64
FloatDaily(i, tb) ==
    LET mean == FDiv2(FAdd(FromTenths(archive[i].t_max[1]),
                           FromTenths(archive[i].t_min[1])))
        g == FSub(mean, FromTenths(tb))
    IN IF g.neg THEN FZero ELSE g

\* the float64 terms added one day after the other
RECURSIVE FloatSumInOrder(_, _)
FloatSumInOrder(n, tb) ==
    IF n = 0 THEN FZero
    ELSE FAdd(FloatSumInOrder(n - 1, tb), FloatDaily(n, tb))

\* one millionth of a degree, in units of 2^-FracBits
Millionth == NatDivSmall(NatDivSmall(NatShl(<<1>>, FracBits), 1000).q, 1000).q

\* the non-negative float x is k twentieths exactly
IsTwentieths(x, k) ==
    ~x.neg /\ NatMulSmall(x.mag, 20) = NatShl(FromSmall(k), FracBits)

\* the non-negative float x is within a millionth of k twentieths
NearTwentieths(x, k) ==
    /\ ~x.neg
    /\ LET a == NatMulSmall(x.mag, 20)
           b == NatShl(FromSmall(k), FracBits)
           d == IF NatCmp(a, b) >= 0 THEN NatSub(a, b) ELSE NatSub(b, a)
       IN NatCmp(d, NatMulSmall(Millionth, 20)) <= 0

\* the floats x and y are within a millionth of each other
Near(x, y) == NatCmp(ExactAdd(x, FNeg(y)).mag, Millionth) <= 0

\* C1 as stated: over a complete series the value returned is exactly the
\* sum of max(0, (t_max + t_min)/2 - t_base), be it the sum of the real
\* numbers or the float64 terms added day after day.
C1_ExactSum ==
    (pc = "returned" /\ Complete) =>
        \/ IsTwentieths(gdd_cumul, RealSum(date, t_base))
        \/ gdd_cumul = FloatSumInOrder(date, t_base)

\* C1 amended: over a complete series the value returned is the sum of
\* max(0, (t_max + t_min)/2 - t_base) up to float64 rounding: it is within
\* a millionth of the real sum; it is the real sum when every reading and
\* t_base are multiples of 0.5; below 8 days it is the float64 terms added
\* day after day; with t_base = 5 a single day (10, 0) gives 0 and a single
\* day (20, 10) gives 10.
C1_SumUpToRounding ==
    (pc = "returned" /\ Complete) =>
        /\ NearTwentieths(gdd_cumul, RealSum(date, t_base))
        /\ HalfDegrees(date, t_base) =>
              IsTwentieths(gdd_cumul, RealSum(date, t_base))
        /\ date < 8 => gdd_cumul = FloatSumInOrder(date, t_base)
        /\ (date = 1 /\ t_base = 50 /\ archive[1] = Day(100, 0))
              => gdd_cumul = FZero
        /\ (date = 1 /\ t_base = 50 /\ archive[1] = Day(200, 100))
              => gdd_cumul = FromTenths(100)

\* a returned call over 8 complete days whose value is neither the real sum
\* nor the terms added in order, the base being 5
C1_Witness ==
    /\ pc = "returned" /\ Complete /\ date >= 8 /\ t_base = 50
    /\ ~IsTwentieths(gdd_cumul, RealSum(date, t_base))
    /\ gdd_cumul # FloatSumInOrder(date, t_base)
    /\ ~gdd_cumul.neg /\ gdd_cumul # FZero

\* C2: no daily contribution is negative, and when every day of the series
\* has t_mean <= t_base the returned sum is 0.
C2_DailyNeverNegative ==
    pc = "returned" =>
        /\ \A i \in 1..Len(temps) : ~temps[i].gdd_daily.neg
        /\ (\A i \in 1..Len(temps) :
              /\ ~temps[i].t_mean.nan
              /\ FCmp(temps[i].t_mean, FromTenths(t_base)) <= 0)
           => gdd_cumul = FZero

\* a returned call of two days or more, all at or below the base, one of
\* them below zero and one at 6.8 (the floor acted), with result 0
C2_Witness ==
    /\ pc = "returned" /\ Len(temps) >= 2 /\ gdd_cumul = FZero
    /\ \A i \in 1..Len(temps) :
          /\ ~temps[i].t_mean.nan
          /\ FCmp(temps[i].t_mean, FromTenths(t_base)) <= 0
    /\ \E i \in 1..Len(temps) : temps[i].t_mean.neg
    /\ \E i \in 1..Len(temps) : archive[i] = Day(68, 68)

\* the part of a response body for days a..b, as the series of that range
SliceBody(body, a, b) ==
    [daily |->
        [time |-> [i \in 1..(b - a + 1) |-> body.daily.time[a + i - 1]],
         temperature_2m_max |->
            [i \in 1..(b - a + 1) |-> body.daily.temperature_2m_max[a + i - 1]],
         temperature_2m_min |->
            [i \in 1..(b - a + 1) |-> body.daily.temperature_2m_min[a + i - 1]]]]

\* accumulation over [1, mid] plus accumulation over [mid+1, end]
SplitSum(mid) ==
    FAdd(GddOfResponse(SliceBody(data, 1, mid), t_base),
         GddOfResponse(SliceBody(data, mid + 1, Len(temps)), t_base))

\* C3 as stated: for every split day mid with start <= mid < end, the
\* accumulation over [start, mid] plus the accumulation over [mid+1, end]
\* equals the accumulation over [start, end] that the call returned.
C3_Additive ==
    pc = "returned" =>
        \A mid \in 1..(Len(temps) - 1) : SplitSum(mid) = gdd_cumul

\* C3 amended: the two accumulations add up to the accumulation over
\* [start, end] up to float64 rounding: within a millionth for every split,
\* and exactly when every reading and t_base are multiples of 0.5.
C3_AdditiveUpToRounding ==
    pc = "returned" =>
        \A mid \in 1..(Len(temps) - 1) :
            /\ Near(SplitSum(mid), gdd_cumul)
            /\ (Complete /\ HalfDegrees(date, t_base))
                  => SplitSum(mid) = gdd_cumul

\* a returned call over three days in which one split gives the returned
\* value and the other split does not
C3_Witness ==
    /\ pc = "returned" /\ Len(temps) = 3
    /\ SplitSum(1) # SplitSum(2)
    /\ \E mid \in 1..2 : SplitSum(mid) = gdd_cumul

\* the value the code returns for target date d1 on this archive
GddAt(d1) == GddOfResponse(DailyResponse(archive, d1), t_base)

\* C4 as stated: for the same archive and t_base, the result for an
\* earlier target date of the year never exceeds the result for this one.
C4_MonotoneInEndDate ==
    pc = "returned" => \A d1 \in 1..date : FCmp(GddAt(d1), gdd_cumul) <= 0

\* C4 amended: the result is non-decreasing in the end date up to float64
\* rounding: an earlier date's result exceeds a later one's by less than a
\* millionth, and not at all when the later range has fewer than 8 days or
\* when every reading and t_base are multiples of 0.5.
C4_MonotoneUpToRounding ==
    pc = "returned" =>
        \A d1 \in 1..date :
            /\ FCmp(GddAt(d1), gdd_cumul) <= 0 \/ Near(GddAt(d1), gdd_cumul)
            /\ (Len(temps) < 8 \/ (Complete /\ HalfDegrees(date, t_base)))
                  => FCmp(GddAt(d1), gdd_cumul) <= 0

\* a returned call over 8 days whose result is below the result for the
\* day before, the last day adding nothing
C4_Witness ==
    /\ pc = "returned" /\ date = 8 /\ Complete
    /\ FCmp(GddAt(7), gdd_cumul) > 0
    /\ temps[8].gdd_daily = FZero

\* part of the requested range [January 1, date] has no record upstream:
\* a null reading, or fewer days than requested
PartMissing ==
    /\ "daily" \in DOMAIN data
    /\ \/ Len(data.daily.time) < date
       \/ \E i \in 1..Len(data.daily.time) :
             \/ data.daily.temperature_2m_max[i] = JNull
             \/ data.daily.temperature_2m_min[i] = JNull

\* C5: when the upstream has no record for part of the requested range the
\* call fails with DataUnavailable and returns no sum.
C5_DataUnavailable ==
    (pc \in {"returned", "raised"} /\ PartMissing) =>
        (pc = "raised" /\ error = "DataUnavailable")

(***************************************************************************)
(* Properties of the URL script                                            *)
(***************************************************************************)
\* the documented files in chronological order, with the years each covers
Documentees ==
    <<[label |-> "previous-1950", lo |-> 0, hi |-> 1949],
      [label |-> "1950-1959", lo |-> 1950, hi |-> 1959],
      [label |-> "1960-1969", lo |-> 1960, hi |-> 1969],
      [label |-> "1970-1979", lo |-> 1970, hi |-> 1979],
      [label |-> "1980-1989", lo |-> 1980, hi |-> 1989],
      [label |-> "1990-1999", lo |-> 1990, hi |-> 1999],
      [label |-> "2000-2009", lo |-> 2000, hi |-> 2009],
      [label |-> "2010-2019", lo |-> 2010, hi |-> 2019],
      [label |-> "2020-2021", lo |-> 2020, hi |-> 2021],
      [label |-> "latest-2022-2023", lo |-> 2022, hi |-> 2023],
      [label |-> "latest-2023-2024", lo |-> 2023, hi |-> 2024],
      [label |-> "latest-2024-2025", lo |-> 2024, hi |-> 2025]>>

\* position of a label in the documented order, 0 when it is not documented
Rang(label) ==
    IF \E k \in 1..Len(Documentees) : Documentees[k].label = label
    THEN CHOOSE k \in 1..Len(Documentees) : Documentees[k].label = label
    ELSE 0

\* the documented period k has a year in common with [debut, fin]
Chevauche(k, debut, fin) ==
    Documentees[k].lo <= fin /\ debut <= Documentees[k].hi

\* the generator has returned to whoever called it
GenererTermine == pc3 \in {"retourne", "rapport", "ecrire"}

Elements(seq) == {seq[i] : i \in 1..Len(seq)}

\* C6: for the range (1990, 2020) the prepared URLs are those of exactly the
\* labels 1990-1999, 2000-2009, 2010-2019 and 2020-2021, each once.
C6_Labels1990To2020 ==
    (GenererTermine /\ annee_debut = 1990 /\ annee_fin = 2020) =>
        /\ Len(urls_prepared) = 4
        /\ Elements(urls_prepared) =
              {"https://object.files.data.gouv.fr/meteofrance-mistermeteo/"
                  \o "quotidien." \o l \o ".prepared.parquet" :
               l \in {"1990-1999", "2000-2009", "2010-2019", "2020-2021"}}
        /\ Elements(periodes) =
              {"1990-1999", "2000-2009", "2010-2019", "2020-2021"}

\* the generator returned for (1990, 2020) with a non-empty answer
C6_Witness ==
    /\ pc3 = "retourne" /\ annee_debut = 1990 /\ annee_fin = 2020
    /\ Len(urls_prepared) > 0

\* C7: a range that lies entirely before 1950 yields the single label
\* previous-1950, with one raw URL and one prepared URL for it.
C7_Before1950 ==
    (GenererTermine /\ annee_debut <= annee_fin /\ annee_fin <= 1949) =>
        /\ periodes = <<"previous-1950">>
        /\ urls = <<"https://object.files.data.gouv.fr/meteofrance-mistermeteo/"
                      \o "quotidien.previous-1950.parquet">>
        /\ urls_prepared =
              <<"https://object.files.data.gouv.fr/meteofrance-mistermeteo/"
                  \o "quotidien.previous-1950.prepared.parquet">>

\* the generator returned for a range of several years, all before 1950
C7_Witness ==
    /\ pc3 = "retourne" /\ annee_debut < annee_fin /\ annee_fin <= 1949
    /\ Len(urls) = 1

\* what a finished run of the script did
ASauvegarde == fichier # <<>>

AAide == \E i \in 1..Len(stdout) : stdout[i].kind = "usage"

ARapport == \E i \in 1..Len(stdout) : stdout[i].kind = "titre"

\* the report was printed in the given format and in no other
RapportAuFormat(f) ==
    /\ ARapport
    /\ (f = "texte") <=> (\E i \in 1..Len(stdout) : stdout[i].kind = "ligne")
    /\ (f = "json") <=>
          (\E i \in 1..Len(stdout) : stdout[i].kind = "json_periode")
    /\ (f = "python") <=>
          (\E i \in 1..Len(stdout) : stdout[i].kind = "python")

\* C8: --save writes the file and exits with 0 without the report; --help
\* prints the usage and exits with 0 without report or file; --json and
\* --python print the report in that format; no argument prints the text
\* report; every finished run, whatever its argument, did exactly one of
\* save, help, report and ended with status 0; and at no moment is the
\* report on the output of a run that saved or printed help.
C8_CliDispatch ==
    /\ (ASauvegarde \/ AAide) => ~ARapport
    /\ pc3 = "exited" =>
          /\ exit_code = 0
          /\ Cardinality({b \in {"save", "help", "report"} :
                \/ b = "save" /\ ASauvegarde
                \/ b = "help" /\ AAide
                \/ b = "report" /\ ARapport}) = 1
    /\ (pc3 = "exited" /\ argv1 = "--save") =>
          ASauvegarde /\ exit_code = 0 /\ ~ARapport
    /\ (pc3 = "exited" /\ argv1 = "--help") =>
          AAide /\ exit_code = 0 /\ ~ARapport /\ ~ASauvegarde
    /\ (pc3 = "exited" /\ argv1 = "--json") => RapportAuFormat("json")
    /\ (pc3 = "exited" /\ argv1 = "--python") => RapportAuFormat("python")
    /\ (pc3 = "exited" /\ argv1 = "") => RapportAuFormat("texte")
    /\ (pc3 = "exited" /\ argv1 \in {"", "--json", "--python"}) =>
          ~ASauvegarde /\ ~AAide

\* a run with --save has ended: the file holds URLs and the status is 0
C8_Witness ==
    /\ pc3 = "exited" /\ argv1 = "--save" /\ exit_code = 0
    /\ \E i \in 1..Len(fichier) : fichier[i].kind = "url"

\* C9: for debut <= fin, every label returned denotes a period that has a
\* year in common with [debut, fin], and every documented period that has
\* one is returned.
C9_OnlyOverlapping ==
    (GenererTermine /\ annee_debut <= annee_fin) =>
        /\ \A i \in 1..Len(periodes) :
              /\ Rang(periodes[i]) # 0
              /\ Chevauche(Rang(periodes[i]), annee_debut, annee_fin)
        /\ \A k \in 1..Len(Documentees) :
              Chevauche(k, annee_debut, annee_fin)
                 => Documentees[k].label \in Elements(periodes)

\* C10: for every pair of years, debut > fin included, the two lists have
\* the same length and no duplicate, follow the chronological order of the
\* periods, and pair up: the i-th entries are the raw and the prepared URL
\* of the same label.
C10_ListsCorrespond ==
    GenererTermine =>
        /\ Len(urls) = Len(urls_prepared)
        /\ Len(urls) = Len(periodes)
        /\ \A i, j \in 1..Len(urls) :
              i < j => /\ urls[i] # urls[j]
                       /\ urls_prepared[i] # urls_prepared[j]
                       /\ 0 < Rang(periodes[i])
                       /\ Rang(periodes[i]) < Rang(periodes[j])
        /\ \A i \in 1..Len(urls) :
              /\ urls[i] =
                   "https://object.files.data.gouv.fr/meteofrance-mistermeteo/"
                     \o "quotidien." \o periodes[i] \o ".parquet"
              /\ urls_prepared[i] =
                   "https://object.files.data.gouv.fr/meteofrance-mistermeteo/"
                     \o "quotidien." \o periodes[i] \o ".prepared.parquet"

\* the generator returned several URLs for a pair with debut > fin
C10_Witness ==
    /\ pc3 = "retourne" /\ annee_debut > annee_fin
    /\ Len(urls) > 1 /\ Len(urls_prepared) > 1

====
